---- MODULE Spec2Model ----
(***************************************************************************)
(* A model of package unsafecache (src/unsafe/unsafecache.go): the        *)
(* expiring key/value Cache with its background sweeper, and the LRUCache. *)
(***************************************************************************)
EXTENDS Integers, Sequences, FiniteSets, TLC

(***************************************************************************)
(* Bounds of the model.                                                    *)
(***************************************************************************)
MaxTime == 2
MaxArith == 1
MaxCap == 2
MaxHist == 4
MaxCalls == 2

(***************************************************************************)
(* Inputs.                                                                 *)
(***************************************************************************)
Keys == {"a", "b"}
NoKey == "-"
Durations == {-1, 0, 1}
ArithDurations == {0, 1}
DefaultTTLs == {-1, 0, 2}
Deltas == {100}
ArithDeltas == {100, -65500}

\* Item.Expiration is a *time.Time; the nil pointer is NilTime.
NilTime == -1

\* The dynamic types Increment and Decrement switch on, with their widths in
\* bits (int, uint and uintptr on a 64-bit build).
IntKinds ==
  {"int", "int8", "int16", "int32", "int64",
   "uint", "uint8", "uint16", "uint32", "uint64", "uintptr"}

Signed(kind) == kind \in {"int", "int8", "int16", "int32", "int64"}

Width(kind) ==
  CASE kind \in {"int8", "uint8"} -> 8
    [] kind \in {"int16", "uint16"} -> 16
    [] kind \in {"int32", "uint32"} -> 32
    [] OTHER -> 64

\* A stored interface{} value: its dynamic type and its contents.
Val(kind, v) == [kind |-> kind, v |-> v]
NoVal == Val("nil", 0)
Values == {Val("int8", 100), Val("string", 0)}
ArithValues == {Val("int8", 100), Val("uint16", 65500), Val("string", 0)}

RECURSIVE Pow2(_)
Pow2(n) == IF n = 0 THEN 1 ELSE 2 * Pow2(n - 1)

\* Go's integer conversion K(x): x truncated to Width(K) bits, read in K.
Conv(kind, x) ==
  LET m == Pow2(Width(kind))
      r == x % m
  IN IF Signed(kind) /\ r >= m \div 2 THEN r - m ELSE r

VARIABLES
  items,              \* Cache.items: key -> Item
  defaultExpiration,  \* Cache.defaultExpiration
  now,                \* the clock read by time.Now()
  last,               \* the last step: a call and what it returned, or a tick
  written,            \* per key, the last Set with a positive ttl still in force
  nArith,             \* number of Increment/Decrement calls so far
  fg,                 \* the foreground call in progress beside the sweeper
  sw,                 \* the sweeper goroutine: its position and its locals
  race,               \* a map access of one goroutine overlapped a write of the other
  aborted,            \* the runtime stopped the process on such an access
  swKilled,           \* the sweeper's last delete and whether the entry was live
  lru,                \* the LRUCache: maxEntries, items, cacheList and the list's elements
  lruLast,            \* the last LRUCache call and what it returned
  useOrder,           \* the keys present, by their last successful Add or Get, latest first
  hist,               \* the calls since NewLRU, while all were Adds of new keys and hitting Gets
  retained,           \* a plain map key -> value kept beside the LRUCache from the calls made
  gor                 \* per goroutine sharing the LRUCache: its call, its position in it, its locals

cacheVars == <<items, defaultExpiration, now, last, written, nArith>>
sweepVars == <<fg, sw, race, aborted, swKilled>>
lruVars == <<lru, lruLast, useOrder, hist, retained, gor>>
vars == <<cacheVars, sweepVars, lruVars>>

Item(val, exp) == [Object |-> val, Expiration |-> exp]

ExpiredMutant(item, t) ==
  item.Expiration # NilTime /\ item.Expiration <= t

\* Item.Expired, with time.Now() = t.
Expired(item, t) ==
  IF item.Expiration = NilTime
    THEN FALSE
    ELSE item.Expiration < t

Call(op, key, val, n, found, err) ==
  [op |-> op, key |-> key, val |-> val, n |-> n, found |-> found, err |-> err,
   keys |-> {}]

NoWrite == [on |-> FALSE, v |-> NoVal, deadline |-> 0]

Idle == Call("idle", NoKey, NoVal, 0, FALSE, "")

Sweeper(pc, key, visited, detached, snap) ==
  [pc |-> pc, key |-> key, visited |-> visited,
   detached |-> detached, snap |-> snap]

NoKill == [on |-> FALSE, key |-> NoKey, live |-> FALSE]

\* New(defaultExpiration, cleanInterval): an empty map, and the sweeper
\* goroutine when cleanInterval > 0.
New(d, ci) ==
  /\ fg = Idle
  /\ sw = Sweeper(IF ci > 0 THEN "sleep" ELSE "off", NoKey, {}, FALSE, << >>)
  /\ race = FALSE
  /\ aborted = FALSE
  /\ swKilled = NoKill
  /\ items = << >>
  /\ defaultExpiration = d
  /\ now = 0
  /\ last = Call("New", NoKey, NoVal, d, FALSE, "")
  /\ written = [k \in Keys |-> NoWrite]
  /\ nArith = 0

\* Cache.Get's two results.
GetResult(m, key, t) ==
  IF key \notin DOMAIN m \/ Expired(m[key], t)
    THEN [val |-> NoVal, found |-> FALSE]
    ELSE [val |-> m[key].Object, found |-> TRUE]

Get(key) ==
  /\ last' = Call("Get", key, GetResult(items, key, now).val, 0,
                  GetResult(items, key, now).found, "")
  /\ UNCHANGED <<items, defaultExpiration, now, written, nArith>>

SetExpirationDefaultUnlessPositive(dur, dflt, t) ==
  LET d == IF dur <= 0 THEN dflt ELSE dur
  IN IF d > 0 THEN t + d ELSE NilTime

\* The expiration Set computes from dur.
SetExpiration(dur, dflt, t) ==
  LET d == IF dur = 0 THEN dflt ELSE dur
  IN IF d > 0 THEN t + d ELSE NilTime

Put(m, key, item) ==
  [k \in DOMAIN m \cup {key} |-> IF k = key THEN item ELSE m[k]]

Set(key, val, dur) ==
  /\ items' = Put(items, key, Item(val, SetExpiration(dur, defaultExpiration, now)))
  /\ last' = Call("Set", key, val, dur, FALSE, "")
  /\ written' = [written EXCEPT ![key] =
                   IF dur > 0
                     THEN [on |-> TRUE, v |-> val, deadline |-> now + dur]
                     ELSE NoWrite]
  /\ UNCHANGED <<defaultExpiration, now, nArith>>

Drop(m, ks) == [k \in DOMAIN m \ ks |-> m[k]]

Delete(key) ==
  /\ items' = Drop(items, {key})
  /\ last' = Call("Delete", key, NoVal, 0, FALSE, "")
  /\ written' = [written EXCEPT ![key] = NoWrite]
  /\ UNCHANGED <<defaultExpiration, now, nArith>>

FlushKeepingUndated ==
  /\ items' = [k \in {j \in DOMAIN items : items[j].Expiration = NilTime} |->
                items[k]]
  /\ last' = Call("Flush", NoKey, NoVal, 0, FALSE, "")
  /\ written' = [k \in Keys |-> NoWrite]
  /\ UNCHANGED <<defaultExpiration, now, nArith>>

Flush ==
  /\ items' = << >>
  /\ last' = Call("Flush", NoKey, NoVal, 0, FALSE, "")
  /\ written' = [k \in Keys |-> NoWrite]
  /\ UNCHANGED <<defaultExpiration, now, nArith>>

\* The switch of Increment (sign = 1) and Decrement (sign = -1) on the
\* dynamic type: K(value) + K(x), in K's arithmetic.
ArithNoConv(obj, x, sign) ==
  Val(obj.kind, obj.v + sign * x)

Arith(obj, x, sign) ==
  Val(obj.kind, Conv(obj.kind, obj.v + sign * Conv(obj.kind, x)))

ArithErrIgnoringExpiry(m, key, t) ==
  IF key \notin DOMAIN m
    THEN "NotFound"
    ELSE IF m[key].Object.kind \in IntKinds THEN "" ELSE "TypeMismatch"

\* What Increment and Decrement return: "" for nil.
ArithErr(m, key, t) ==
  IF key \notin DOMAIN m \/ Expired(m[key], t)
    THEN "NotFound"
    ELSE IF m[key].Object.kind \in IntKinds THEN "" ELSE "TypeMismatch"

ArithCall(op, key, x, sign) ==
  LET err == ArithErr(items, key, now)
  IN /\ err = "" => nArith < MaxArith
     /\ items' = IF err = ""
                   THEN [items EXCEPT ![key].Object = Arith(@, x, sign)]
                   ELSE items
     /\ nArith' = IF err = "" THEN nArith + 1 ELSE nArith
     /\ written' = IF err = ""
                     THEN [written EXCEPT ![key] = NoWrite]
                     ELSE written
     /\ last' = Call(op, key, NoVal, x, FALSE, err)
     /\ UNCHANGED <<defaultExpiration, now>>

Increment(key, x) == ArithCall("Increment", key, x, 1)

Decrement(key, x) == ArithCall("Decrement", key, x, -1)

ItemCountLive(m, t) == Cardinality({k \in DOMAIN m : ~Expired(m[k], t)})

\* What ItemCount returns: len(c.items).
ItemCountResult(m, t) == Cardinality(DOMAIN m)

ItemCount ==
  /\ last' = Call("ItemCount", NoKey, NoVal, ItemCountResult(items, now), FALSE, "")
  /\ UNCHANGED <<items, defaultExpiration, now, written, nArith>>

NilKey == "nil"

\* DumpKeys: every key of the map but nil.
DumpKeysResult(m) == {k \in DOMAIN m : k # NilKey}

DumpKeys ==
  /\ last' = [Call("DumpKeys", NoKey, NoVal, 0, FALSE, "")
                EXCEPT !.keys = DumpKeysResult(items)]
  /\ UNCHANGED <<items, defaultExpiration, now, written, nArith>>

\* The keys DeleteExpired's loop deletes: those whose item is expired.
ExpiredKeysAnyDeadline(m, t) == {k \in DOMAIN m : m[k].Expiration # NilTime}

ExpiredKeys(m, t) == {k \in DOMAIN m : Expired(m[k], t)}

\* The map DeleteExpired leaves, run alone at time t.
DeleteExpiredMap(m, t) == Drop(m, ExpiredKeys(m, t))

DeleteExpired ==
  /\ items' = DeleteExpiredMap(items, now)
  /\ last' = Call("DeleteExpired", NoKey, NoVal, 0, FALSE, "")
  /\ UNCHANGED <<defaultExpiration, now, written, nArith>>

Tick ==
  /\ now < MaxTime
  /\ now' = now + 1
  /\ last' = Call("Tick", NoKey, NoVal, 0, FALSE, "")
  /\ UNCHANGED <<items, defaultExpiration, written, nArith>>

(***************************************************************************)
(* The LRUCache.  cacheList is the container/list list, front first, as a  *)
(* sequence of elements; elems gives each element's *entry; items maps a   *)
(* key to its element.                                                     *)
(***************************************************************************)
LRUKeys == {"a", "b", "c"}
LRUValues == {"x", "y"}
NoValue == ""
Sizes == -1 .. MaxCap

NilElem == 0

Range(l) == {l[i] : i \in 1 .. Len(l)}

\* list.PushFront, list.MoveToFront, list.Remove and list.Back.
PushFront(l, e) == <<e>> \o l

WithoutElem(l, e) == SelectSeq(l, LAMBDA x : x # e)

MoveToFrontIgnored(l, e) == l

MoveToFront(l, e) ==
  IF e \notin Range(l) THEN l ELSE <<e>> \o WithoutElem(l, e)

ListRemove(l, e) == WithoutElem(l, e)

Front(l) == IF Len(l) = 0 THEN NilElem ELSE l[1]

Back(l) == IF Len(l) = 0 THEN NilElem ELSE l[Len(l)]

Store(isNil, max, its, list, els) ==
  [nil |-> isNil, maxEntries |-> max, items |-> its, cacheList |-> list,
   elems |-> els]

\* NewLRU(size): an error and no store when size < 0.
NewLRU(size) ==
  IF size < 0
    THEN [err |-> "InvalidArgument", store |-> Store(TRUE, 0, << >>, << >>, << >>)]
    ELSE [err |-> "", store |-> Store(FALSE, size, << >>, << >>, << >>)]

\* LRUCache.Len.
LRULen(c) == Len(c.cacheList)

\* The element a PushFront allocates.
NewElem(c) == CHOOSE e \in 1 .. (Cardinality(DOMAIN c.elems) + 1) : e \notin DOMAIN c.elems

removeElementFromListOnly(c, e) ==
  [c EXCEPT !.cacheList = ListRemove(c.cacheList, e)]

removeElement(c, e) ==
  [c EXCEPT !.cacheList = ListRemove(c.cacheList, e),
            !.items = Drop(c.items, {c.elems[e].key}),
            !.elems = Drop(c.elems, {e})]

removeNewestElement(c) ==
  IF Front(c.cacheList) # NilElem
    THEN removeElement(c, Front(c.cacheList))
    ELSE c

removeOldestElement(c) ==
  IF Back(c.cacheList) # NilElem
    THEN removeElement(c, Back(c.cacheList))
    ELSE c

AddNoEvict(c, key, value) ==
  IF key \in DOMAIN c.items
    THEN [c EXCEPT !.cacheList = MoveToFront(c.cacheList, c.items[key]),
                   !.elems[c.items[key]].value = value]
    ELSE LET e == NewElem(c)
         IN [c EXCEPT !.cacheList = PushFront(c.cacheList, e),
                      !.items = Put(c.items, key, e),
                      !.elems = Put(c.elems, e, [key |-> key, value |-> value])]

\* LRUCache.Add.
Add(c, key, value) ==
  IF key \in DOMAIN c.items
    THEN [c EXCEPT !.cacheList = MoveToFront(c.cacheList, c.items[key]),
                   !.elems[c.items[key]].value = value]
    ELSE LET e == NewElem(c)
             d == [c EXCEPT !.cacheList = PushFront(c.cacheList, e),
                            !.items = Put(c.items, key, e),
                            !.elems = Put(c.elems, e, [key |-> key, value |-> value])]
         IN IF d.maxEntries > 0 /\ LRULen(d) > d.maxEntries
              THEN removeOldestElement(d)
              ELSE d

\* LRUCache.Get: what it returns, and the store it leaves.
LRUGetResult(c, key) ==
  IF key \in DOMAIN c.items
    THEN [val |-> c.elems[c.items[key]].value, found |-> TRUE]
    ELSE [val |-> NoValue, found |-> FALSE]

LRUGetNoPromote(c, key) == c

LRUGet(c, key) ==
  IF key \in DOMAIN c.items
    THEN [c EXCEPT !.cacheList = MoveToFront(c.cacheList, c.items[key])]
    ELSE c

\* LRUCache.Remove.
Remove(c, key) ==
  IF key \in DOMAIN c.items
    THEN removeElement(c, c.items[key])
    ELSE c

\* LRUCache.Clear.
ClearListOnly(c) == [c EXCEPT !.cacheList = << >>]

Clear(c) == [c EXCEPT !.cacheList = << >>, !.items = << >>, !.elems = << >>]

\* LRUCache.SetMaxEntries.
SetMaxEntriesEvicting(c, max) ==
  IF max < 0
    THEN [err |-> "InvalidArgument", store |-> c]
    ELSE [err |-> "",
          store |-> IF max > 0 /\ LRULen(c) > max
                      THEN removeOldestElement([c EXCEPT !.maxEntries = max])
                      ELSE [c EXCEPT !.maxEntries = max]]

SetMaxEntriesUnchecked(c, max) ==
  [err |-> "", store |-> [c EXCEPT !.maxEntries = max]]

SetMaxEntries(c, max) ==
  IF max < 0
    THEN [err |-> "InvalidArgument", store |-> c]
    ELSE [err |-> "", store |-> [c EXCEPT !.maxEntries = max]]

\* LRUCache.DumpKeys.
LRUDumpKeys(c) == {k \in DOMAIN c.items : k # NilKey}

LRUCall(op, key, val, n, found, err, evicted) ==
  [op |-> op, key |-> key, val |-> val, n |-> n, found |-> found, err |-> err,
   evicted |-> evicted, keys |-> {}]

\* The keys by last use after a successful Add or Get of key, among those
\* the store still holds.
Used(order, key, c) ==
  SelectSeq(<<key>> \o SelectSeq(order, LAMBDA k : k # key),
            LAMBDA k : k \in DOMAIN c.items)

Clean(ops) == [clean |-> TRUE, ops |-> ops]
Dirty == [clean |-> FALSE, ops |-> << >>]

Record(h, op, key, val, kept) ==
  IF h.clean /\ kept /\ Len(h.ops) < MaxHist
    THEN Clean(Append(h.ops, [op |-> op, key |-> key, val |-> val]))
    ELSE Dirty

\* The goroutines that share one LRUCache.
Goroutines == {1, 2}

Gor(pc, op, key, value, e, calls) ==
  [pc |-> pc, op |-> op, key |-> key, value |-> value, e |-> e, calls |-> calls]

\* A goroutine outside any call, having made calls calls.
Returned(calls) == Gor("idle", "", NoKey, NoValue, NilElem, calls)

\* The plain map after Add(key, value): the key is bound to the value, and
\* when the key is new and the map outgrows a positive capacity, the key
\* used longest ago is dropped.
Retain(ret, order, max, key, value) ==
  LET bound == [k \in DOMAIN ret \cup {key} |->
                  IF k = key THEN value ELSE ret[k]]
  IN IF key \notin DOMAIN ret /\ max > 0 /\ Cardinality(DOMAIN bound) > max
       THEN [k \in DOMAIN bound \ {order[Len(order)]} |-> bound[k]]
       ELSE bound

LRUInit(size) ==
  /\ lru = NewLRU(size).store
  /\ lruLast = LRUCall("NewLRU", NoKey, NoValue, size, FALSE, NewLRU(size).err, {})
  /\ useOrder = << >>
  /\ hist = Clean(<< >>)
  /\ retained = << >>
  /\ gor = [g \in Goroutines |-> Returned(0)]

DoAdd(key, value) ==
  /\ ~lru.nil
  /\ lru' = Add(lru, key, value)
  /\ lruLast' = LRUCall("Add", key, value, 0, FALSE, "",
                        (DOMAIN lru.items \cup {key}) \ DOMAIN lru'.items)
  /\ useOrder' = Used(useOrder, key, lru')
  /\ hist' = Record(hist, "Add", key, value,
                    \A i \in 1 .. Len(hist.ops) : hist.ops[i].key # key)
  /\ retained' = Retain(retained, useOrder, lru.maxEntries, key, value)

DoGet(key) ==
  /\ ~lru.nil
  /\ lru' = LRUGet(lru, key)
  /\ lruLast' = LRUCall("Get", key, LRUGetResult(lru, key).val, 0,
                        LRUGetResult(lru, key).found, "", {})
  /\ useOrder' = IF LRUGetResult(lru, key).found
                   THEN Used(useOrder, key, lru')
                   ELSE useOrder
  /\ hist' = Record(hist, "Get", key, NoValue, LRUGetResult(lru, key).found)
  /\ UNCHANGED retained

DoRemove(key) ==
  /\ ~lru.nil
  /\ lru' = Remove(lru, key)
  /\ lruLast' = LRUCall("Remove", key, NoValue, 0, FALSE, "", {})
  /\ useOrder' = SelectSeq(useOrder, LAMBDA k : k # key)
  /\ hist' = Dirty
  /\ retained' = [k \in DOMAIN retained \ {key} |-> retained[k]]

DoLen ==
  /\ ~lru.nil
  /\ lruLast' = LRUCall("Len", NoKey, NoValue, LRULen(lru), FALSE, "", {})
  /\ UNCHANGED <<lru, useOrder, hist, retained>>

DoClear ==
  /\ ~lru.nil
  /\ lru' = Clear(lru)
  /\ lruLast' = LRUCall("Clear", NoKey, NoValue, 0, FALSE, "", {})
  /\ useOrder' = << >>
  /\ hist' = Dirty
  /\ retained' = << >>

DoSetMaxEntries(max) ==
  /\ ~lru.nil
  /\ lru' = SetMaxEntries(lru, max).store
  /\ lruLast' = LRUCall("SetMaxEntries", NoKey, NoValue, max, FALSE,
                        SetMaxEntries(lru, max).err, {})
  /\ hist' = Dirty
  /\ UNCHANGED <<useOrder, retained>>

DoDumpKeys ==
  /\ ~lru.nil
  /\ lruLast' = [LRUCall("DumpKeys", NoKey, NoValue, 0, FALSE, "", {})
                   EXCEPT !.keys = LRUDumpKeys(lru)]
  /\ UNCHANGED <<lru, useOrder, hist, retained>>

NextLRU ==
  \/ \E k \in LRUKeys, v \in LRUValues :
       DoAdd(k, v) /\ UNCHANGED <<cacheVars, sweepVars, gor>>
  \/ \E k \in LRUKeys : DoGet(k) /\ UNCHANGED <<cacheVars, sweepVars, gor>>
  \/ \E k \in LRUKeys : DoRemove(k) /\ UNCHANGED <<cacheVars, sweepVars, gor>>
  \/ DoLen /\ UNCHANGED <<cacheVars, sweepVars, gor>>
  \/ DoClear /\ UNCHANGED <<cacheVars, sweepVars, gor>>
  \/ \E max \in Sizes : DoSetMaxEntries(max) /\ UNCHANGED <<cacheVars, sweepVars, gor>>
  \/ DoDumpKeys /\ UNCHANGED <<cacheVars, sweepVars, gor>>

SpecLRU == (New(0, 0) /\ \E size \in Sizes : LRUInit(size)) /\ [][NextLRU]_vars

(***************************************************************************)
(* The Cache used by one caller, without a sweeper.                        *)
(***************************************************************************)
Init == LRUInit(0) /\ \E d \in DefaultTTLs : New(d, 0)

Next ==
  \/ \E k \in Keys : Get(k) /\ UNCHANGED <<sweepVars, lruVars>>
  \/ \E k \in Keys, v \in Values, d \in Durations :
       Set(k, v, d) /\ UNCHANGED <<sweepVars, lruVars>>
  \/ \E k \in Keys : Delete(k) /\ UNCHANGED <<sweepVars, lruVars>>
  \/ Flush /\ UNCHANGED <<sweepVars, lruVars>>
  \/ \E k \in Keys, x \in Deltas : Increment(k, x) /\ UNCHANGED <<sweepVars, lruVars>>
  \/ \E k \in Keys, x \in Deltas : Decrement(k, x) /\ UNCHANGED <<sweepVars, lruVars>>
  \/ ItemCount /\ UNCHANGED <<sweepVars, lruVars>>
  \/ DumpKeys /\ UNCHANGED <<sweepVars, lruVars>>
  \/ DeleteExpired /\ UNCHANGED <<sweepVars, lruVars>>
  \/ Tick /\ UNCHANGED <<sweepVars, lruVars>>

Spec == Init /\ [][Next]_vars

(***************************************************************************)
(* The same Cache, driven with wider integer inputs for Increment and      *)
(* Decrement.                                                              *)
(***************************************************************************)
(***************************************************************************)
(* Two goroutines sharing one LRUCache.  No method takes a lock, so the    *)
(* calls interleave at each access to the map or to the list; each such    *)
(* access is one step.  A list element stays allocated while a goroutine   *)
(* may still hold it.                                                      *)
(***************************************************************************)
ConcKeys == {"a", "b"}
ConcValues == {"x"}
ConcSizes == 0 .. 1

Goto(g, pc) == gor' = [gor EXCEPT ![g].pc = pc]
Return(g) == gor' = [gor EXCEPT ![g] = Returned(gor[g].calls)]

\* A goroutine enters Add, Get or Remove.
CallBegin(g, op, key, value) ==
  /\ ~lru.nil
  /\ gor[g].pc = "idle"
  /\ gor[g].calls < MaxCalls
  /\ gor' = [gor EXCEPT ![g] = Gor("lookup", op, key, value, NilElem,
                                   gor[g].calls + 1)]
  /\ UNCHANGED lru

\* ent, hit := c.items[key] in Add, Get and Remove.
Lookup(g) ==
  /\ gor[g].pc = "lookup"
  /\ IF gor[g].key \in DOMAIN lru.items
       THEN gor' = [gor EXCEPT ![g].e = lru.items[gor[g].key],
                               ![g].pc = IF gor[g].op = "Remove"
                                           THEN "unlink" ELSE "move"]
       ELSE IF gor[g].op = "Add" THEN Goto(g, "push") ELSE Return(g)
  /\ UNCHANGED lru

\* c.cacheList.MoveToFront(ent) in Add and Get; Get returns after it.
Move(g) ==
  /\ gor[g].pc = "move"
  /\ lru' = [lru EXCEPT !.cacheList = MoveToFront(lru.cacheList, gor[g].e)]
  /\ IF gor[g].op = "Add" THEN Goto(g, "assign") ELSE Return(g)

\* ent.Value.(*entry).value = value; return.
Assign(g) ==
  /\ gor[g].pc = "assign"
  /\ lru' = [lru EXCEPT !.elems[gor[g].e].value = gor[g].value]
  /\ Return(g)

\* ent := c.cacheList.PushFront(&entry{key, value}).
Push(g) ==
  /\ gor[g].pc = "push"
  /\ lru' = [lru EXCEPT
               !.cacheList = PushFront(lru.cacheList, NewElem(lru)),
               !.elems = Put(lru.elems, NewElem(lru),
                             [key |-> gor[g].key, value |-> gor[g].value])]
  /\ gor' = [gor EXCEPT ![g].e = NewElem(lru), ![g].pc = "store"]

\* c.items[key] = ent.
StoreEntry(g) ==
  /\ gor[g].pc = "store"
  /\ lru' = [lru EXCEPT !.items = Put(lru.items, gor[g].key, gor[g].e)]
  /\ Goto(g, "check")

\* if c.maxEntries > 0 && c.cacheList.Len() > c.maxEntries.
Check(g) ==
  /\ gor[g].pc = "check"
  /\ IF lru.maxEntries > 0 /\ LRULen(lru) > lru.maxEntries
       THEN Goto(g, "back")
       ELSE Return(g)
  /\ UNCHANGED lru

\* removeOldestElement: ent := c.cacheList.Back(); if ent != nil.
OldestBack(g) ==
  /\ gor[g].pc = "back"
  /\ IF Back(lru.cacheList) # NilElem
       THEN gor' = [gor EXCEPT ![g].e = Back(lru.cacheList), ![g].pc = "unlink"]
       ELSE Return(g)
  /\ UNCHANGED lru

\* removeElement: c.cacheList.Remove(e), nothing if e has left the list.
Unlink(g) ==
  /\ gor[g].pc = "unlink"
  /\ lru' = [lru EXCEPT !.cacheList = ListRemove(lru.cacheList, gor[g].e)]
  /\ Goto(g, "unindex")

\* removeElement: delete(c.items, ent.key); return.
Unindex(g) ==
  /\ gor[g].pc = "unindex"
  /\ lru' = [lru EXCEPT !.items = Drop(lru.items, {lru.elems[gor[g].e].key})]
  /\ Return(g)

NextConc ==
  \/ \E g \in Goroutines, k \in ConcKeys, v \in ConcValues :
       CallBegin(g, "Add", k, v)
         /\ UNCHANGED <<cacheVars, sweepVars, lruLast, useOrder, hist, retained>>
  \/ \E g \in Goroutines, k \in ConcKeys :
       CallBegin(g, "Get", k, NoValue)
         /\ UNCHANGED <<cacheVars, sweepVars, lruLast, useOrder, hist, retained>>
  \/ \E g \in Goroutines, k \in ConcKeys :
       CallBegin(g, "Remove", k, NoValue)
         /\ UNCHANGED <<cacheVars, sweepVars, lruLast, useOrder, hist, retained>>
  \/ \E g \in Goroutines :
       Lookup(g) /\ UNCHANGED <<cacheVars, sweepVars, lruLast, useOrder, hist, retained>>
  \/ \E g \in Goroutines :
       Move(g) /\ UNCHANGED <<cacheVars, sweepVars, lruLast, useOrder, hist, retained>>
  \/ \E g \in Goroutines :
       Assign(g) /\ UNCHANGED <<cacheVars, sweepVars, lruLast, useOrder, hist, retained>>
  \/ \E g \in Goroutines :
       Push(g) /\ UNCHANGED <<cacheVars, sweepVars, lruLast, useOrder, hist, retained>>
  \/ \E g \in Goroutines :
       StoreEntry(g) /\ UNCHANGED <<cacheVars, sweepVars, lruLast, useOrder, hist, retained>>
  \/ \E g \in Goroutines :
       Check(g) /\ UNCHANGED <<cacheVars, sweepVars, lruLast, useOrder, hist, retained>>
  \/ \E g \in Goroutines :
       OldestBack(g) /\ UNCHANGED <<cacheVars, sweepVars, lruLast, useOrder, hist, retained>>
  \/ \E g \in Goroutines :
       Unlink(g) /\ UNCHANGED <<cacheVars, sweepVars, lruLast, useOrder, hist, retained>>
  \/ \E g \in Goroutines :
       Unindex(g) /\ UNCHANGED <<cacheVars, sweepVars, lruLast, useOrder, hist, retained>>

SpecConc ==
  (New(0, 0) /\ \E size \in ConcSizes : LRUInit(size)) /\ [][NextConc]_vars

(***************************************************************************)
(* A program that holds one of the two stores.  The Cache and the LRUCache *)
(* share no field and no code, so a behaviour of a program that uses both  *)
(* is an interleaving of a behaviour of each; the two are explored here    *)
(* side by side: either NewLRU was never given a store and the Cache is    *)
(* used, or the LRUCache is used and the Cache stays as New left it.       *)
(***************************************************************************)
InitStores ==
  \/ LRUInit(-1) /\ \E d \in DefaultTTLs : New(d, 0)
  \/ New(0, 0) /\ \E size \in 0 .. MaxCap : LRUInit(size)

NextStores ==
  \/ lru.nil /\ Next
  \/ NextLRU

SpecStores == InitStores /\ [][NextStores]_vars

NextArith ==
  \/ \E k \in Keys, v \in ArithValues, d \in ArithDurations :
       Set(k, v, d) /\ UNCHANGED <<sweepVars, lruVars>>
  \/ \E k \in Keys, x \in ArithDeltas : Increment(k, x) /\ UNCHANGED <<sweepVars, lruVars>>
  \/ \E k \in Keys, x \in ArithDeltas : Decrement(k, x) /\ UNCHANGED <<sweepVars, lruVars>>
  \/ \E k \in Keys : Get(k) /\ UNCHANGED <<sweepVars, lruVars>>
  \/ Tick /\ UNCHANGED <<sweepVars, lruVars>>

SpecArith == (LRUInit(0) /\ New(0, 0)) /\ [][NextArith]_vars

(***************************************************************************)
(* The Cache with its sweeper goroutine (New with cleanInterval > 0).  The *)
(* code takes no lock: the sweeper's loop and a foreground call interleave *)
(* at every map access.  A foreground call spans two steps, FgBegin where  *)
(* its map access starts and FgEnd where it completes and the call         *)
(* returns; each map access of the sweeper is one step.                    *)
(***************************************************************************)
SweepKeys == {"a"}
SweepValues == {Val("int8", 100)}
SweepDurations == {-1, 1}

\* What a foreground call does to c.items: Flush assigns the field, Set and
\* Delete write the map, the others read it.
Access(op) ==
  CASE op = "Flush" -> "fieldWrite"
    [] op \in {"Set", "Delete", "DeleteExpired"} -> "mapWrite"
    [] OTHER -> "mapRead"

\* The map the range loop iterates: c.items as read when the loop began.
IterMap == IF sw.detached THEN sw.snap ELSE items

\* A sweeper access overlaps the foreground call in progress and conflicts
\* with it: on the field c.items (Flush assigns it while the sweeper reads
\* it), or on the map itself.
FieldOverlap(swReadsField) ==
  fg # Idle /\ Access(fg.op) = "fieldWrite" /\ swReadsField

MapOverlap(swReadsIterMap, swWritesMap) ==
  /\ fg # Idle
  /\ \/ Access(fg.op) = "mapWrite" /\ swWritesMap
     \/ Access(fg.op) = "mapWrite" /\ swReadsIterMap /\ ~sw.detached
     \/ Access(fg.op) = "mapRead" /\ swWritesMap

\* An unsynchronized overlapping access is a data race; on one to the map
\* the runtime may stop the process ("concurrent map ...") or let both
\* accesses complete.
Racy(onField, onMap) ==
  /\ race' = (race \/ onField \/ onMap)
  /\ aborted' \in IF onMap THEN {TRUE, FALSE} ELSE {FALSE}

FgBegin(op, key, val, n) ==
  /\ ~aborted
  /\ fg = Idle
  /\ op = "Increment" => nArith < MaxArith
  /\ fg' = Call(op, key, val, n, FALSE, "")
  /\ UNCHANGED <<cacheVars, sw, race, aborted, swKilled>>

\* The loop's view after a foreground call: Flush leaves the loop on the
\* old map; a deleted entry is no longer one the loop has produced; an
\* entry created during the loop may be skipped.
AfterFg(call, m) ==
  IF sw.pc \in {"off", "sleep"} \/ sw.detached
    THEN {sw}
    ELSE CASE call.op = "Flush" ->
                {[sw EXCEPT !.detached = TRUE, !.snap = m]}
           [] call.op = "Delete" ->
                {[sw EXCEPT !.visited = @ \ {call.key}]}
           [] call.op = "DeleteExpired" ->
                {[sw EXCEPT !.visited = @ \ ExpiredKeys(m, now)]}
           [] call.op = "Set" /\ call.key \notin DOMAIN m ->
                {sw, [sw EXCEPT !.visited = @ \cup {call.key}]}
           [] OTHER -> {sw}

FgEnd ==
  /\ ~aborted
  /\ fg # Idle
  /\ \/ fg.op = "Set" /\ Set(fg.key, fg.val, fg.n)
     \/ fg.op = "Get" /\ Get(fg.key)
     \/ fg.op = "Delete" /\ Delete(fg.key)
     \/ fg.op = "Flush" /\ Flush
     \/ fg.op = "Increment" /\ Increment(fg.key, fg.n)
     \/ fg.op = "ItemCount" /\ ItemCount
     \/ fg.op = "DumpKeys" /\ DumpKeys
     \/ fg.op = "DeleteExpired" /\ DeleteExpired
  /\ fg' = Idle
  /\ sw' \in AfterFg(fg, items)
  /\ UNCHANGED <<race, aborted, swKilled>>

\* time.Sleep returns and DeleteExpired's range loop begins on c.items.
SwWake ==
  /\ ~aborted
  /\ sw.pc = "sleep"
  /\ sw' = Sweeper("next", NoKey, {}, FALSE, << >>)
  /\ Racy(FieldOverlap(TRUE), MapOverlap(TRUE, FALSE))
  /\ UNCHANGED <<cacheVars, fg, swKilled>>

\* One turn of the loop: the next entry k, v and the test v.Expired(); the
\* loop ends, and the sweeper sleeps again, when no entry is left.
SwNext ==
  /\ ~aborted
  /\ sw.pc = "next"
  /\ LET left == DOMAIN IterMap \ sw.visited
     IN IF left = {}
          THEN sw' = Sweeper("sleep", NoKey, {}, FALSE, << >>)
          ELSE \E k \in left :
                 sw' = IF Expired(IterMap[k], now)
                         THEN [sw EXCEPT !.pc = "delete", !.key = k,
                                         !.visited = @ \cup {k}]
                         ELSE [sw EXCEPT !.visited = @ \cup {k}]
  /\ Racy(FieldOverlap(FALSE), MapOverlap(TRUE, FALSE))
  /\ UNCHANGED <<cacheVars, fg, swKilled>>

\* delete(c.items, k), on whatever map c.items is now.
SwDelete ==
  /\ ~aborted
  /\ sw.pc = "delete"
  /\ items' = Drop(items, {sw.key})
  /\ swKilled' = [on |-> sw.key \in DOMAIN items,
                  key |-> sw.key,
                  live |-> sw.key \in DOMAIN items /\ ~Expired(items[sw.key], now)]
  /\ sw' = [sw EXCEPT !.pc = "next", !.key = NoKey]
  /\ Racy(FieldOverlap(TRUE), MapOverlap(FALSE, TRUE))
  /\ UNCHANGED <<defaultExpiration, now, last, written, nArith, fg>>

SweepTick ==
  /\ ~aborted
  /\ Tick
  /\ UNCHANGED sweepVars

NextSweep ==
  \/ \E k \in SweepKeys, v \in SweepValues, d \in SweepDurations :
       FgBegin("Set", k, v, d) /\ UNCHANGED lruVars
  \/ \E k \in SweepKeys : FgBegin("Get", k, NoVal, 0) /\ UNCHANGED lruVars
  \/ \E k \in SweepKeys : FgBegin("Delete", k, NoVal, 0) /\ UNCHANGED lruVars
  \/ FgBegin("Flush", NoKey, NoVal, 0) /\ UNCHANGED lruVars
  \/ \E k \in SweepKeys, x \in Deltas :
       FgBegin("Increment", k, NoVal, x) /\ UNCHANGED lruVars
  \/ FgBegin("ItemCount", NoKey, NoVal, 0) /\ UNCHANGED lruVars
  \/ FgBegin("DumpKeys", NoKey, NoVal, 0) /\ UNCHANGED lruVars
  \/ FgEnd /\ UNCHANGED lruVars
  \/ SwWake /\ UNCHANGED lruVars
  \/ SwNext /\ UNCHANGED lruVars
  \/ SwDelete /\ UNCHANGED lruVars
  \/ SweepTick /\ UNCHANGED lruVars

SpecSweep == (LRUInit(0) /\ New(0, 1)) /\ [][NextSweep]_vars

(***************************************************************************)
(* The Cache with or without its sweeper, under fair scheduling: New       *)
(* starts the sweeper goroutine only when cleanInterval > 0; the callers   *)
(* may call DeleteExpired themselves.  The scheduler runs the sweeper      *)
(* whenever it can take a step, a call in progress returns, and the clock  *)
(* advances.                                                               *)
(***************************************************************************)
CleanIntervals == {0, 1}

InitLive == LRUInit(0) /\ \E ci \in CleanIntervals : New(0, ci)

NextLive ==
  \/ NextSweep
  \/ FgBegin("DeleteExpired", NoKey, NoVal, 0) /\ UNCHANGED lruVars

Fairness ==
  /\ WF_vars(SwWake /\ UNCHANGED lruVars)
  /\ WF_vars(SwNext /\ UNCHANGED lruVars)
  /\ WF_vars(SwDelete /\ UNCHANGED lruVars)
  /\ WF_vars(FgEnd /\ UNCHANGED lruVars)
  /\ WF_vars(SweepTick /\ UNCHANGED lruVars)

SpecLive == InitLive /\ [][NextLive]_vars /\ Fairness

(***************************************************************************)
(* Claims about the Cache used by one caller.                              *)
(***************************************************************************)

\* The deadline exp lies strictly before the time t.
Passed(exp, t) == exp # NilTime /\ t > exp

Found(v) == [val |-> v, found |-> TRUE]

\* C1 as stated: an entry written by Set(k, v, d), d > 0, at time t0 and not
\* modified since is returned by Get at every time before t0 + d and is not
\* found at every time at or after t0 + d.
C1_ExpiryAtOrAfter ==
  \A k \in Keys :
    written[k].on =>
      IF now < written[k].deadline
        THEN GetResult(items, k, now) = Found(written[k].v)
        ELSE ~GetResult(items, k, now).found

\* C1 amended: the entry is returned by Get at every time up to and including
\* t0 + d, and is not found at every time strictly after t0 + d, whether or
\* not DeleteExpired has run.
C1_ExpiryStrictlyAfter ==
  \A k \in Keys :
    written[k].on =>
      IF now <= written[k].deadline
        THEN GetResult(items, k, now) = Found(written[k].v)
        ELSE ~GetResult(items, k, now).found

C1_Witness ==
  /\ last.op = "Get"
  /\ last.key \in Keys
  /\ written[last.key].on
  /\ now = written[last.key].deadline
  /\ last.found

\* C7: Set(k, v, ttl) at time now stores v with the expiration this call
\* alone determines (ttl, or defaultTTL when ttl = 0; now + duration when the
\* duration is positive, never otherwise) and Get(k) then returns (v, true).
C7_SetResolvesTTL ==
  last.op = "Set" =>
    LET dur == IF last.n = 0 THEN defaultExpiration ELSE last.n
        exp == IF dur > 0 THEN now + dur ELSE NilTime
    IN /\ last.key \in DOMAIN items
       /\ items[last.key].Object = last.val
       /\ items[last.key].Expiration = exp
       /\ GetResult(items, last.key, now) = Found(last.val)

C7_Witness ==
  /\ last.op = "Set"
  /\ last.n < 0
  /\ defaultExpiration > 0
  /\ now > 0
  /\ items[last.key].Expiration = NilTime

\* C8: Increment and Decrement return NotFound exactly when the key is
\* absent or its entry's deadline has passed, TypeMismatch exactly when the
\* entry is live and holds no integer, and a failing call changes nothing.
C8_ArithFailures ==
  [][last'.op \in {"Increment", "Decrement"} =>
      LET k == last'.key
          gone == k \notin DOMAIN items \/ Passed(items[k].Expiration, now)
      IN /\ last'.err = "NotFound" <=> gone
         /\ last'.err = "TypeMismatch" <=>
              (~gone /\ items[k].Object.kind \notin IntKinds)
         /\ last'.err \in {"", "NotFound", "TypeMismatch"}
         /\ last'.err # "" => items' = items]_vars

C8_Witness ==
  /\ last.op = "Increment"
  /\ last.err = "NotFound"
  /\ last.key \in DOMAIN items
  /\ items[last.key].Object.kind = "string"

\* n reduced modulo 2^Width(kind) into the range of kind.
Reduce(kind, n) ==
  LET m == Pow2(Width(kind))
  IN IF Signed(kind)
       THEN ((n + m \div 2) % m) - m \div 2
       ELSE n % m

\* C9: a successful Increment (Decrement) replaces the integer value by
\* value + x (value - x) reduced modulo 2^w into its kind's range, keeps the
\* kind and the expiration, and changes no other entry.
C9_ArithSuccess ==
  [][(last'.op \in {"Increment", "Decrement"} /\ last'.err = "") =>
      LET k == last'.key
          x == IF last'.op = "Increment" THEN last'.n ELSE -last'.n
      IN /\ DOMAIN items' = DOMAIN items
         /\ items'[k].Object.kind = items[k].Object.kind
         /\ items'[k].Object.v =
              Reduce(items[k].Object.kind, items[k].Object.v + x)
         /\ items'[k].Expiration = items[k].Expiration
         /\ \A j \in DOMAIN items \ {k} : items'[j] = items[j]]_vars

C9_Witness ==
  /\ last.op = "Increment"
  /\ last.err = ""
  /\ last.n = -65500
  /\ items[last.key].Object = Val("uint16", 0)
  /\ items[last.key].Expiration # NilTime

\* C10: DeleteExpired run alone at time now removes exactly the entries
\* whose deadline has passed at now, leaves every other entry as it was, and
\* run again at the same time changes nothing.
C10_DeleteExpiredExact ==
  [][last'.op = "DeleteExpired" =>
      /\ DOMAIN items' =
           {k \in DOMAIN items : ~Passed(items[k].Expiration, now)}
      /\ \A k \in DOMAIN items' : items'[k] = items[k]
      /\ DeleteExpiredMap(items', now') = items']_vars

C10_Witness ==
  /\ last.op = "DeleteExpired"
  /\ \E k \in Keys :
       k \notin DOMAIN items /\ written[k].on /\ written[k].deadline < now
  /\ \E k \in DOMAIN items : items[k].Expiration = now

(***************************************************************************)
(* Claims about the Cache beside its sweeper.                              *)
(***************************************************************************)

\* C4: no map access of the sweeper overlaps a conflicting access of a
\* foreground call, and the runtime never stops the process for one.
C4_NoMapRace == ~race /\ ~aborted

\* C5: every entry the sweeper deletes is expired at the moment it is
\* deleted (so an entry Set during a sweep survives the sweep).
C5_SweeperDeletesOnlyExpired == swKilled.on => ~swKilled.live

(***************************************************************************)
(* Claims about the LRUCache used by one caller.                           *)
(***************************************************************************)

HistAdd(k, v) == [op |-> "Add", key |-> k, val |-> v]
HistGet(k) == [op |-> "Get", key |-> k, val |-> NoValue]

\* The two runs of C2 on a store built with capacity 2.
PlainRun(a, b, c) ==
  \E va, vb, vc \in LRUValues :
    hist = Clean(<<HistAdd(a, va), HistAdd(b, vb), HistAdd(c, vc)>>)

PromotingRun(a, b, c) ==
  \E va, vb, vc \in LRUValues :
    hist = Clean(<<HistAdd(a, va), HistAdd(b, vb), HistGet(a), HistAdd(c, vc)>>)

C2_Runs ==
  \A a, b, c \in LRUKeys :
    (Cardinality({a, b, c}) = 3 /\ lru.maxEntries = 2 /\ lruLast.op = "Add") =>
      /\ PlainRun(a, b, c) => lruLast.evicted = {a}
      /\ PromotingRun(a, b, c) => lruLast.evicted = {b}

\* C2: whenever an Add of a new key evicts, the evicted key is the one whose
\* last successful Add or Get is the oldest among the keys present; with
\* capacity 2, Add(a); Add(b); Add(c) evicts a and Add(a); Add(b); Get(a);
\* Add(c) evicts b.
C2_EvictsLeastRecentlyUsed ==
  [][/\ (lruLast'.op = "Add" /\ lruLast'.evicted # {}) =>
          /\ Len(useOrder) > 0
          /\ lruLast'.evicted = {useOrder[Len(useOrder)]}
          /\ lruLast'.key \notin Range(useOrder)
     /\ Range(useOrder') = DOMAIN lru'.items
     /\ C2_Runs']_vars

C2_Witness ==
  /\ \E a, b, c \in LRUKeys : Cardinality({a, b, c}) = 3 /\ PromotingRun(a, b, c)
  /\ lru.maxEntries = 2
  /\ lruLast.op = "Add"
  /\ lruLast.evicted # {}

\* C3 as stated: whenever capacity > 0, Len() is at most capacity.
C3_LenWithinCapacity == lru.maxEntries > 0 => LRULen(lru) <= lru.maxEntries

\* A SetMaxEntries(max) call with 0 < max < Len().
Shrinks(call, c) ==
  call.op = "SetMaxEntries" /\ 0 < call.n /\ call.n < LRULen(c)

\* C3 amended: every Add, Get, Remove and Clear, and every SetMaxEntries(max)
\* but one with 0 < max < Len(), keeps Len() at most a positive capacity; so
\* it is, in every state reached without such a SetMaxEntries call.
C3_LenWithinCapacityUnlessShrunk ==
  [][(C3_LenWithinCapacity /\ ~Shrinks(lruLast', lru)) => C3_LenWithinCapacity']_vars

C3_Witness ==
  /\ lruLast.op = "Add"
  /\ lruLast.evicted # {}
  /\ ~hist.clean
  /\ lru.maxEntries > 0
  /\ LRULen(lru) = lru.maxEntries

\* C6: on a store of capacity N > 0, N + 1 Adds of pairwise distinct keys and
\* nothing else leave Len() = N, the first key absent and each other key
\* present with the value it was added with.
C6_FillAndOverflow ==
  LET n == Len(hist.ops)
      adds == hist.ops
  IN (/\ hist.clean
      /\ lru.maxEntries > 0
      /\ n = lru.maxEntries + 1
      /\ \A i \in 1 .. n : adds[i].op = "Add"
      /\ \A i, j \in 1 .. n : i # j => adds[i].key # adds[j].key)
     => /\ LRULen(lru) = lru.maxEntries
        /\ ~LRUGetResult(lru, adds[1].key).found
        /\ \A i \in 2 .. n :
             LRUGetResult(lru, adds[i].key) = Found(adds[i].val)

C6_Witness ==
  /\ hist.clean
  /\ lru.maxEntries = 2
  /\ Len(hist.ops) = 3
  /\ \A i \in 1 .. 3 : hist.ops[i].op = "Add"
  /\ Cardinality({hist.ops[i].key : i \in 1 .. 3}) = 3
  /\ LRULen(lru) = 2

(***************************************************************************)
(* Further claims about the Cache used by one caller.                      *)
(***************************************************************************)

\* C11: Get, ItemCount and DumpKeys leave the map as it is; an entry whose
\* deadline has passed is hidden from Get, still counted by ItemCount and
\* listed by DumpKeys, and leaves the map or changes only in DeleteExpired,
\* Delete, Flush or Set.
C11_ReadsDoNotPurge ==
  [][/\ last'.op \in {"Get", "ItemCount", "DumpKeys"} => items' = items
     /\ last'.op = "Get" =>
          (last'.found <=>
             (last'.key \in DOMAIN items
                /\ ~Passed(items[last'.key].Expiration, now)))
     /\ last'.op = "ItemCount" => last'.n = Cardinality(DOMAIN items)
     /\ last'.op = "DumpKeys" => last'.keys = DOMAIN items
     /\ \A k \in DOMAIN items :
          (Passed(items[k].Expiration, now)
             /\ (k \notin DOMAIN items' \/ items'[k] # items[k]))
          => last'.op \in {"DeleteExpired", "Delete", "Flush", "Set"}]_vars

C11_Witness ==
  /\ last.op = "ItemCount"
  /\ last.n = 2
  /\ Cardinality({k \in Keys : GetResult(items, k, now).found}) = 1

(***************************************************************************)
(* Further claims about the LRUCache used by one caller.                   *)
(***************************************************************************)

\* The keys of the recency list, most recently used first.
KeyOrder(c) == [i \in 1 .. Len(c.cacheList) |-> c.elems[c.cacheList[i]].key]

\* The value the store holds for each key.
ValueOf(c) == [k \in DOMAIN c.items |-> c.elems[c.items[k]].value]

\* C12: SetMaxEntries(max) with max >= 0 changes the capacity and nothing
\* else, also when 0 < max < Len(); a key leaves the store only in an Add of
\* a new key, a Remove or a Clear.
C12_SetMaxEntriesDoesNotEvict ==
  [][/\ (lruLast'.op = "SetMaxEntries" /\ lruLast'.n >= 0) =>
          /\ lruLast'.err = ""
          /\ lru'.maxEntries = lruLast'.n
          /\ DOMAIN lru'.items = DOMAIN lru.items
          /\ ValueOf(lru') = ValueOf(lru)
          /\ KeyOrder(lru') = KeyOrder(lru)
          /\ LRULen(lru') = LRULen(lru)
     /\ DOMAIN lru.items \ DOMAIN lru'.items # {} =>
          \/ lruLast'.op = "Add" /\ lruLast'.key \notin DOMAIN lru.items
          \/ lruLast'.op \in {"Remove", "Clear"}]_vars

C12_Witness ==
  /\ lruLast.op = "SetMaxEntries"
  /\ 0 < lruLast.n
  /\ lruLast.n < LRULen(lru)
  /\ lru.maxEntries = lruLast.n

\* C14: NewLRU(size) fails exactly when size < 0 and then yields no store;
\* SetMaxEntries(max) fails exactly when max < 0 and then leaves the capacity,
\* the keys, the values and the recency order as they were; with capacity 0
\* no Add evicts.
C14_NegativeCapacityRejected ==
  /\ [](lruLast.op = "NewLRU" =>
          /\ lruLast.err # "" <=> lruLast.n < 0
          /\ lru.nil <=> lruLast.n < 0
          /\ ~lru.nil => lru.maxEntries = lruLast.n /\ LRULen(lru) = 0)
  /\ [][/\ lruLast'.op = "SetMaxEntries" =>
             /\ lruLast'.err # "" <=> lruLast'.n < 0
             /\ lruLast'.n < 0 => lru' = lru
             /\ lruLast'.n >= 0 => lru'.maxEntries = lruLast'.n
        /\ (lruLast'.op = "Add" /\ lru.maxEntries = 0) =>
             /\ lruLast'.evicted = {}
             /\ DOMAIN lru'.items = DOMAIN lru.items \cup {lruLast'.key}]_vars

C14_Witness ==
  /\ lruLast.op = "SetMaxEntries"
  /\ lruLast.n < 0
  /\ lruLast.err # ""
  /\ lru.maxEntries = 0
  /\ LRULen(lru) = 3

\* No call on the LRUCache is in progress.
AllReturned == \A g \in Goroutines : gor[g].pc = "idle"

\* The index and the recency list hold the same keys, one node per key, and
\* Len() is the number of indexed keys.
SameKeys(c) ==
  /\ DOMAIN c.items = {c.elems[e].key : e \in Range(c.cacheList)}
  /\ \A i, j \in 1 .. Len(c.cacheList) :
       c.elems[c.cacheList[i]].key = c.elems[c.cacheList[j]].key => i = j
  /\ LRULen(c) = Cardinality(DOMAIN c.items)

\* C16: in every state one caller can reach, the index and the recency list
\* hold the same keys, no key is in two nodes, each index entry points to the
\* node that carries its own key, and Len() is the number of indexed keys.
C16_IndexAgreesWithList ==
  ~lru.nil =>
    /\ SameKeys(lru)
    /\ \A k \in DOMAIN lru.items :
         /\ lru.items[k] \in Range(lru.cacheList)
         /\ lru.elems[lru.items[k]].key = k

C16_Witness ==
  /\ lruLast.op = "Remove"
  /\ lruLast.key \notin DOMAIN lru.items
  /\ LRULen(lru) = 2
  /\ lru.maxEntries = 1

\* An Add that has inserted a new key and found the list longer than a
\* positive capacity: the only Add that removes a key.
Overflowed(call) == call.op = "Add" /\ call.evicted # {}

\* C17 as stated: when an Add that overflowed returns, Len() <= capacity,
\* also where SetMaxEntries had lowered the capacity below the length.
C17_AddRestoresBound ==
  Overflowed(lruLast) => LRULen(lru) <= lru.maxEntries

\* C17: an Add of a new key whose insertion makes the list longer than a
\* positive capacity removes exactly the tail node; it leaves Len() as it was
\* before the Add, so Len() <= capacity holds on return when it held before.
C17_AddEvictsTailOnly ==
  [][(/\ lruLast'.op = "Add"
      /\ lruLast'.key \notin DOMAIN lru.items
      /\ lru.maxEntries > 0
      /\ LRULen(lru) + 1 > lru.maxEntries) =>
       /\ lruLast'.evicted = {lru.elems[Back(lru.cacheList)].key}
       /\ KeyOrder(lru') =
            <<lruLast'.key>> \o SubSeq(KeyOrder(lru), 1, LRULen(lru) - 1)
       /\ LRULen(lru') = LRULen(lru)
       /\ LRULen(lru) <= lru.maxEntries => LRULen(lru') <= lru'.maxEntries]_vars

C17_Witness ==
  /\ Overflowed(lruLast)
  /\ LRULen(lru) = 2
  /\ lru.maxEntries = 1

\* C18: Add(k, v) with k present stores v under k, makes k the most recently
\* used key, keeps the order of the other keys, and leaves the key set and
\* Len() unchanged, also when Len() exceeds the capacity.
C18_AddOfPresentKey ==
  [][(lruLast'.op = "Add" /\ lruLast'.key \in DOMAIN lru.items) =>
       /\ ValueOf(lru') = [ValueOf(lru) EXCEPT ![lruLast'.key] = lruLast'.val]
       /\ KeyOrder(lru') =
            <<lruLast'.key>>
              \o SelectSeq(KeyOrder(lru), LAMBDA k : k # lruLast'.key)
       /\ DOMAIN lru'.items = DOMAIN lru.items
       /\ LRULen(lru') = LRULen(lru)
       /\ lruLast'.evicted = {}]_vars

C18_Witness ==
  /\ lruLast.op = "Add"
  /\ lruLast.evicted = {}
  /\ lru.maxEntries = 1
  /\ LRULen(lru) = 3
  /\ KeyOrder(lru)[1] = lruLast.key
  /\ ValueOf(lru)[lruLast.key] = lruLast.val

\* C20: after any calls of Add, Get, Remove, Clear and SetMaxEntries by one
\* caller, Get(k) finds k exactly when the plain map kept from those calls
\* holds k, and returns the value of the latest Add(k, .); a Get that misses
\* and a Remove of an absent key change no key, value or position.
C20_RefinesRetainedMap ==
  /\ [](~lru.nil =>
          \A k \in LRUKeys :
            LRUGetResult(lru, k) =
              IF k \in DOMAIN retained
                THEN [val |-> retained[k], found |-> TRUE]
                ELSE [val |-> NoValue, found |-> FALSE])
  /\ [][(\/ lruLast'.op = "Get" /\ ~lruLast'.found
         \/ lruLast'.op = "Remove" /\ lruLast'.key \notin DOMAIN lru.items) =>
          /\ DOMAIN lru'.items = DOMAIN lru.items
          /\ ValueOf(lru') = ValueOf(lru)
          /\ KeyOrder(lru') = KeyOrder(lru)]_vars

C20_Witness ==
  /\ lruLast.op = "Get"
  /\ ~lruLast.found
  /\ lruLast.key \notin DOMAIN retained
  /\ lru.maxEntries = 2
  /\ LRULen(lru) = 2
  /\ \E k \in DOMAIN retained : retained[k] = "y"
  /\ ~hist.clean

(***************************************************************************)
(* Claims about both stores.                                               *)
(***************************************************************************)

\* C13: Clear leaves Len() = 0 and every Get missing, Flush leaves
\* ItemCount() = 0 and every Get missing; neither changes the configuration:
\* the capacity changes in SetMaxEntries alone and still decides each later
\* Add's eviction, the default ttl never changes and still decides the
\* deadline of each later Set with ttl 0.
C13_ResetKeepsConfiguration ==
  [][/\ lruLast'.op = "Clear" =>
          /\ LRULen(lru') = 0
          /\ \A k \in LRUKeys : ~LRUGetResult(lru', k).found
          /\ lru'.maxEntries = lru.maxEntries
     /\ lru'.maxEntries # lru.maxEntries => lruLast'.op = "SetMaxEntries"
     /\ (lruLast'.op = "Add" /\ lruLast'.key \notin DOMAIN lru.items) =>
          /\ lruLast'.evicted # {}
                <=> (lru.maxEntries > 0 /\ LRULen(lru) + 1 > lru.maxEntries)
          /\ (lru.maxEntries > 0 /\ LRULen(lru) <= lru.maxEntries)
                => LRULen(lru') <= lru.maxEntries
     /\ last'.op = "Flush" =>
          /\ ItemCountResult(items', now') = 0
          /\ \A k \in Keys : ~GetResult(items', k, now').found
     /\ defaultExpiration' = defaultExpiration
     /\ (last'.op = "Set" /\ last'.n = 0) =>
          items'[last'.key].Expiration =
            IF defaultExpiration > 0 THEN now + defaultExpiration ELSE NilTime
    ]_vars

C13_Witness ==
  /\ lruLast.op = "Clear"
  /\ LRULen(lru) = 0
  /\ lru.maxEntries = 1
  /\ lru.elems = << >>

(***************************************************************************)
(* Claims about the LRUCache shared by two goroutines.                     *)
(***************************************************************************)

\* C15: when two goroutines call Add, Get or Remove concurrently, in every
\* state where all their calls have returned the index and the recency list
\* hold the same keys, one node per key, and Len() is the number of indexed
\* keys.
C15_ConcurrentCallsKeepAgreement ==
  AllReturned => SameKeys(lru)

(***************************************************************************)
(* Claims about the Cache and its sweeper under fair scheduling.           *)
(***************************************************************************)

\* The deadlines an entry can carry.
Deadlines == 1 .. MaxTime + 1

\* The map holds under k the entry with deadline e.
Holds(m, k, e) == k \in DOMAIN m /\ m[k].Expiration = e

\* C19: with the sweeper running, every entry that is in the map with its
\* deadline passed is eventually no longer in the map as that entry; with no
\* sweeper, such an entry leaves the map or changes only in a caller's
\* DeleteExpired, Delete, Flush or Set.
C19_ExpiredEventuallyGone ==
  /\ \A k \in SweepKeys, e \in Deadlines :
       (sw.pc # "off" /\ Holds(items, k, e) /\ Passed(e, now))
         ~> ~Holds(items, k, e)
  /\ [][sw.pc = "off" =>
          \A k \in DOMAIN items :
            (Passed(items[k].Expiration, now)
               /\ (k \notin DOMAIN items' \/ items'[k] # items[k]))
            => last'.op \in {"DeleteExpired", "Delete", "Flush", "Set"}]_vars

====
